---- MODULE Spec2Model ----
(***************************************************************************)
(* A model of two files of jiascheduler:                                   *)
(*   automate/src/lib.rs      process-wide cells, routing keys, identifiers *)
(*   openapi/src/logic/job.rs JobLogic: delete_job and query_run_list       *)
(* A Rust String is a sequence of one-character strings, an Option<T> is a *)
(* sequence of length at most one (None == << >>, Some(v) == <<v>>).       *)
(***************************************************************************)
EXTENDS Integers, Sequences, FiniteSets

VARIABLES
    LOCAL_IP,      \* lib.rs:22  OnceLock<IpAddr>
    HTTP_CLIENT,   \* lib.rs:23  OnceLock<Client>
    COMET_ADDR,    \* lib.rs:24  static mut OnceLock<String>
    setLog,        \* the addr arguments of the latest set_comet_addr calls
                   \* (the two most recent are kept)
    call,          \* the latest completed call: [op, args, ret]
    memo,          \* an earlier get_endpoint call, kept for comparison
    pc,            \* per thread: where it is inside set_comet_addr
    arg,           \* per thread: the addr it passed
    ncalls,        \* per thread: the calls of set_comet_addr it has started
    passed,        \* the addrs passed to set_comet_addr so far
    job,           \* job.rs: the job table, rows [id, eid]
    job_exec_history,   \* the job_exec_history table, rows [id, eid]
    dpc,           \* per task: where it is inside delete_job
    deid,          \* per task: the eid it was called with
    job_running_status, \* the job_running_status table
    job_schedule_history \* the job_schedule_history table

libVars == <<LOCAL_IP, HTTP_CLIENT, COMET_ADDR, setLog>>
raceVars == <<pc, arg, ncalls, passed>>
dbVars == <<job, job_exec_history, dpc, deid>>
runVars == <<job_running_status, job_schedule_history>>
vars == <<libVars, call, memo, raceVars, dbVars, runVars>>

(***************************************************************************)
(* Values                                                                  *)
(***************************************************************************)
None == << >>
Some(v) == <<v>>

Ok(v) == <<"ok", v>>
Err(msg) == <<"err", msg>>
Panic(msg) == <<"panic", msg>>

NoCall == [op |-> "none", args |-> << >>, ret |-> << >>]

\* Bound on the length of the generated namespace, ip and prefix strings.
MaxLen == 2

Alphabet == {"a", ":"}

Strs == UNION {[1..n -> Alphabet] : n \in 0..MaxLen}

TenantA == <<"t", "e", "n", "a", "n", "t", "A">>
Ip10 == <<"1", "0", ".", "0", ".", "0", ".", "1">>

Namespaces == Strs \cup {TenantA}
IpStrs == Strs \cup {Ip10}

\* The few argument pairs used where two calls are compared.
ProbeArgs == {<<None, Ip10>>, <<TenantA, Ip10>>}

\* Bound on the threads that call set_comet_addr concurrently.
NumThreads == 2
Threads == 1..NumThreads

DeleteTasks == {"d1", "d2"}

HostIps == {"192.168.1.10"}
Addrs == {"comet-1:3000", "comet-2:3000"}

(***************************************************************************)
(* automate/src/lib.rs                                                     *)
(***************************************************************************)
\* The literal "jiascheduler:ins:" of both format! strings.
KeyPrefix ==
    <<"j", "i", "a", "s", "c", "h", "e", "d", "u", "l", "e", "r", ":",
      "i", "n", "s", ":">>

get_endpoint_swapped(namespace, ip) ==
    IF namespace # << >>
    THEN KeyPrefix \o ip \o <<":">> \o namespace
    ELSE KeyPrefix \o ip

get_endpoint_via_cell(namespace, ip) ==
    IF COMET_ADDR # None
    THEN <<COMET_ADDR[1]>> \o <<":">> \o ip
    ELSE IF namespace # << >>
         THEN KeyPrefix \o namespace \o <<":">> \o ip
         ELSE KeyPrefix \o ip

get_endpoint(namespace, ip) ==
    IF namespace # << >>
    THEN KeyPrefix \o namespace \o <<":">> \o ip
    ELSE KeyPrefix \o ip

InitLib ==
    /\ LOCAL_IP = None
    /\ HTTP_CLIENT = None
    /\ COMET_ADDR = None
    /\ setLog = << >>
    /\ call = NoCall
    /\ memo = NoCall

InitRace ==
    /\ pc = [t \in Threads |-> "idle"]
    /\ arg = [t \in Threads |-> None]
    /\ ncalls = [t \in Threads |-> 0]
    /\ passed = {}

InitDb ==
    /\ job = {}
    /\ job_exec_history = {}
    /\ dpc = [t \in DeleteTasks |-> "idle"]
    /\ deid = [t \in DeleteTasks |-> None]

InitRun ==
    /\ job_running_status = {}
    /\ job_schedule_history = {}

\* get_local_ip: get_or_init with local_ip().expect(..)
GetLocalIp ==
    /\ \/ /\ LOCAL_IP # None
          /\ call' = [op |-> "get_local_ip", args |-> << >>, ret |-> Ok(LOCAL_IP[1])]
          /\ UNCHANGED LOCAL_IP
       \/ /\ LOCAL_IP = None
          /\ \E ip \in HostIps :
                /\ LOCAL_IP' = Some(ip)
                /\ call' = [op |-> "get_local_ip", args |-> << >>, ret |-> Ok(ip)]
       \/ /\ LOCAL_IP = None
          /\ call' = [op |-> "get_local_ip", args |-> << >>,
                      ret |-> Panic("failed get local ip")]
          /\ UNCHANGED LOCAL_IP
    /\ UNCHANGED <<HTTP_CLIENT, COMET_ADDR, setLog, memo, raceVars, dbVars, runVars>>

GetEndpointCall(namespace, ip) ==
    [op |-> "get_endpoint", args |-> <<namespace, ip>>,
     ret |-> Ok(get_endpoint(namespace, ip))]

\* One call of get_endpoint: it reads its two arguments and writes no cell.
EndpointStep(namespace, ip) ==
    /\ call' = GetEndpointCall(namespace, ip)
    /\ UNCHANGED <<libVars, raceVars, dbVars, runVars>>

GetEndpoint ==
    /\ \E namespace \in Namespaces, ip \in IpStrs : EndpointStep(namespace, ip)
    /\ UNCHANGED memo

\* The same call on one of the probe arguments; the call may be kept in memo.
GetEndpointProbe ==
    \E a \in ProbeArgs :
        /\ EndpointStep(a[1], a[2])
        /\ \/ memo' = memo
           \/ memo' = call'

\* The first of two calls that are compared: it is kept in memo.
GetEndpointFirst ==
    /\ memo = NoCall
    /\ \E namespace \in Namespaces, ip \in IpStrs : EndpointStep(namespace, ip)
    /\ memo' = call'

\* get_http_client: get_or_init(Client::new), then clone
GetHttpClient ==
    /\ HTTP_CLIENT' = IF HTTP_CLIENT = None THEN Some("client") ELSE HTTP_CLIENT
    /\ call' = [op |-> "get_http_client", args |-> << >>, ret |-> Ok(HTTP_CLIENT'[1])]
    /\ UNCHANGED <<LOCAL_IP, COMET_ADDR, setLog, memo, raceVars, dbVars, runVars>>

set_comet_addr_once(cell, addr) ==
    IF cell # None THEN cell ELSE Some(addr)

\* The cell after a call of set_comet_addr that runs alone: get_mut() is Some
\* exactly when the cell is initialised, and set() on an empty cell succeeds.
set_comet_addr(cell, addr) ==
    IF cell # None
    THEN Some(addr)     \* *v = addr.into()
    ELSE Some(addr)     \* COMET_ADDR.set(addr.into()) returns Ok

SetCometAddr ==
    /\ \E addr \in Addrs :
          /\ COMET_ADDR' = set_comet_addr(COMET_ADDR, addr)
          /\ setLog' = IF Len(setLog) < 2 THEN Append(setLog, addr)
                                           ELSE <<setLog[2], addr>>
          /\ call' = [op |-> "set_comet_addr", args |-> <<addr>>, ret |-> Ok(<< >>)]
    /\ UNCHANGED <<LOCAL_IP, HTTP_CLIENT, memo, raceVars, dbVars, runVars>>

\* COMET_ADDR.get().cloned()
get_comet_addr(cell) == cell

GetCometAddr ==
    /\ call' = [op |-> "get_comet_addr", args |-> << >>,
                ret |-> Ok(get_comet_addr(COMET_ADDR))]
    /\ UNCHANGED <<LOCAL_IP, HTTP_CLIENT, COMET_ADDR, setLog, memo, raceVars, dbVars, runVars>>

Init == InitLib /\ InitRace /\ InitDb /\ InitRun

Next ==
    \/ GetLocalIp
    \/ GetEndpoint
    \/ GetHttpClient
    \/ SetCometAddr
    \/ GetCometAddr

Spec == Init /\ [][Next]_vars

(***************************************************************************)
(* The same calls with get_endpoint on the probe arguments, an earlier     *)
(* call kept in memo.                                                      *)
(***************************************************************************)
NextPure ==
    \/ GetLocalIp
    \/ GetEndpointProbe
    \/ GetHttpClient
    \/ SetCometAddr
    \/ GetCometAddr

SpecPure == Init /\ [][NextPure]_vars

(***************************************************************************)
(* Two calls of get_endpoint on arguments drawn from the bounded strings.  *)
(***************************************************************************)
NextKeys ==
    \/ GetEndpointFirst
    \/ GetEndpoint

SpecKeys == Init /\ [][NextKeys]_vars

(***************************************************************************)
(* get_nanid: the prefix is drawn by Init, the call picks nanoid's output. *)
(***************************************************************************)
\* nanoid!(10): the length of the generated identifier.
NanoidSize == 10

\* Two of the 64 symbols of nanoid's alphabet ("-" is one of them).
NanoAlphabet == {"-", "A"}

nanoid(size) == [1..size -> NanoAlphabet]

Pending == <<"pending">>

get_nanid_nosep(prefix, id) == prefix \o id

\* format!("{prefix}-{}", id)
get_nanid(prefix, id) == prefix \o <<"-">> \o id

InitNanid ==
    /\ LOCAL_IP = None
    /\ HTTP_CLIENT = None
    /\ COMET_ADDR = None
    /\ setLog = << >>
    /\ memo = NoCall
    /\ InitRace /\ InitDb /\ InitRun
    /\ call \in {[op |-> "get_nanid", args |-> <<prefix>>, ret |-> Pending] :
                    prefix \in Strs}

GetNanid ==
    /\ call.op = "get_nanid"
    /\ call.ret = Pending
    /\ \E id \in nanoid(NanoidSize) :
          call' = [call EXCEPT !.ret = Ok(get_nanid(call.args[1], id))]
    /\ UNCHANGED <<libVars, memo, raceVars, dbVars, runVars>>

SpecNanid == InitNanid /\ [][GetNanid]_vars

(***************************************************************************)
(* set_comet_addr called from several threads. COMET_ADDR is a static mut: *)
(* nothing orders the threads, so a call is three steps, the test of       *)
(* get_mut(), then either the assignment through the &mut String or        *)
(* OnceLock::set with expect.                                              *)
(***************************************************************************)
\* Bound on the calls of set_comet_addr one thread makes.
MaxCalls == 2

\* What a String holds after two unsynchronised writes through aliasing &mut.
Torn == Some("<torn>")

\* set_comet_addr is entered with addr
RaceCall(t) ==
    /\ pc[t] = "idle"
    /\ ncalls[t] < MaxCalls
    /\ \E addr \in Addrs :
          /\ arg' = [arg EXCEPT ![t] = Some(addr)]
          /\ passed' = passed \cup {addr}
    /\ ncalls' = [ncalls EXCEPT ![t] = @ + 1]
    /\ pc' = [pc EXCEPT ![t] = "test"]
    /\ UNCHANGED <<libVars, call, memo, dbVars, runVars>>

\* if let Some(v) = COMET_ADDR.get_mut()
RaceTest(t) ==
    /\ pc[t] = "test"
    /\ pc' = [pc EXCEPT ![t] = IF COMET_ADDR # None THEN "assign" ELSE "set"]
    /\ UNCHANGED <<libVars, call, memo, arg, ncalls, passed, dbVars, runVars>>

\* *v = addr.into(): a data race when another thread holds the same &mut
RaceAssign(t) ==
    /\ pc[t] = "assign"
    /\ \/ COMET_ADDR' = arg[t]
       \/ /\ \E u \in Threads \ {t} : pc[u] = "assign"
          /\ COMET_ADDR' = Torn
    /\ pc' = [pc EXCEPT ![t] = "idle"]
    /\ UNCHANGED <<LOCAL_IP, HTTP_CLIENT, setLog, call, memo, arg, ncalls, passed,
                   dbVars, runVars>>

\* COMET_ADDR.set(addr.into()).expect("failed set comet addr")
RaceSet(t) ==
    /\ pc[t] = "set"
    /\ \/ /\ COMET_ADDR = None
          /\ COMET_ADDR' = arg[t]
          /\ pc' = [pc EXCEPT ![t] = "idle"]
       \/ /\ COMET_ADDR # None
          /\ pc' = [pc EXCEPT ![t] = "panicked"]
          /\ UNCHANGED COMET_ADDR
    /\ UNCHANGED <<LOCAL_IP, HTTP_CLIENT, setLog, call, memo, arg, ncalls, passed,
                   dbVars, runVars>>

\* get_comet_addr, called while no set_comet_addr is running
RaceGet ==
    /\ \A t \in Threads : pc[t] \in {"idle", "panicked"}
    /\ call' = [op |-> "get_comet_addr", args |-> << >>,
                ret |-> Ok(get_comet_addr(COMET_ADDR))]
    /\ UNCHANGED <<libVars, memo, raceVars, dbVars, runVars>>

NextRace ==
    \/ \E t \in Threads : RaceCall(t)
    \/ \E t \in Threads : RaceTest(t)
    \/ \E t \in Threads : RaceAssign(t)
    \/ \E t \in Threads : RaceSet(t)
    \/ RaceGet

SpecRace == Init /\ [][NextRace]_vars

(***************************************************************************)
(* openapi/src/logic/job.rs: save_job and delete_job on the job table,     *)
(* and the recorder that adds job_exec_history rows.                       *)
(***************************************************************************)
\* Bound on the rows of the job table.
MaxJobs == 2
\* Bound on the rows of the job_exec_history table.
MaxHist == 2

Eids == {"e1", "e2"}

Forbidden == "forbidden to delete the executed jobs"

\* JobExecHistory::find().filter(Eid.eq(&eid)).one(db)
find_exec_history(history, eid) ==
    IF \E h \in history : h.eid = eid
    THEN Some(CHOOSE h \in history : h.eid = eid)
    ELSE None

\* Job::delete(ActiveModel {eid: Set(eid), ..}).exec(db): the rows left.
\* The statement is taken to select the rows by the one column the model
\* sets, eid; the job entity, which names the key sea-orm deletes by, is
\* not part of the source modelled here.
job_delete(rows, eid) == {j \in rows : j.eid # eid}

\* ret.rows_affected of that delete
rows_affected(rows, eid) == Cardinality({j \in rows : j.eid = eid})

delete_job_unchecked(rows, history, eid) ==
    [job |-> job_delete(rows, eid), ret |-> Ok(rows_affected(rows, eid))]

\* delete_job run alone: the job table it leaves and what it returns
delete_job(rows, history, eid) ==
    IF find_exec_history(history, eid) # None
    THEN [job |-> rows, ret |-> Err(Forbidden)]
    ELSE [job |-> job_delete(rows, eid), ret |-> Ok(rows_affected(rows, eid))]

\* save_job: model.save(db) inserts a row or updates the row of its id
SaveJob ==
    /\ \/ \E id \in 1..MaxJobs, eid \in Eids :
             /\ \A j \in job : j.id # id
             /\ job' = job \cup {[id |-> id, eid |-> eid]}
             /\ call' = [op |-> "save_job", args |-> <<id, eid>>, ret |-> Ok(id)]
       \/ \E j \in job, eid \in Eids :
             /\ job' = (job \ {j}) \cup {[id |-> j.id, eid |-> eid]}
             /\ call' = [op |-> "save_job", args |-> <<j.id, eid>>, ret |-> Ok(j.id)]
    /\ UNCHANGED <<libVars, memo, raceVars, job_exec_history, dpc, deid, runVars>>

\* A run of the job with this eid is recorded.
InsertExecHistory ==
    /\ \E id \in 1..MaxHist, eid \in Eids :
          /\ \A h \in job_exec_history : h.id # id
          /\ job_exec_history' = job_exec_history \cup {[id |-> id, eid |-> eid]}
          /\ call' = [op |-> "insert_exec_history", args |-> <<id, eid>>, ret |-> Ok(id)]
    /\ UNCHANGED <<libVars, memo, raceVars, job, dpc, deid, runVars>>

\* delete_job(eid), no other statement on the database between its two
DeleteJob ==
    /\ \E eid \in Eids :
          LET r == delete_job(job, job_exec_history, eid)
          IN  /\ job' = r.job
              /\ call' = [op |-> "delete_job", args |-> <<eid>>, ret |-> r.ret]
    /\ UNCHANGED <<libVars, memo, raceVars, job_exec_history, dpc, deid, runVars>>

NextJob ==
    \/ SaveJob
    \/ InsertExecHistory
    \/ DeleteJob

SpecJob == Init /\ [][NextJob]_vars

(***************************************************************************)
(* delete_job as the tasks of the server run it: each .await is a point    *)
(* where other statements reach the database, and no transaction spans     *)
(* the find and the delete.                                                *)
(***************************************************************************)
\* delete_job is entered with eid
DelCall(t) ==
    /\ dpc[t] = "idle"
    /\ \E eid \in Eids : deid' = [deid EXCEPT ![t] = Some(eid)]
    /\ dpc' = [dpc EXCEPT ![t] = "find"]
    /\ UNCHANGED <<libVars, call, memo, raceVars, job, job_exec_history, runVars>>

\* the find, and the bail when it returned a record
DelFind(t) ==
    /\ dpc[t] = "find"
    /\ \/ /\ find_exec_history(job_exec_history, deid[t][1]) # None
          /\ dpc' = [dpc EXCEPT ![t] = "idle"]
          /\ call' = [op |-> "delete_job", args |-> <<deid[t][1]>>, ret |-> Err(Forbidden)]
       \/ /\ find_exec_history(job_exec_history, deid[t][1]) = None
          /\ dpc' = [dpc EXCEPT ![t] = "delete"]
          /\ UNCHANGED call
    /\ UNCHANGED <<libVars, memo, raceVars, job, job_exec_history, deid, runVars>>

\* the delete
DelExec(t) ==
    /\ dpc[t] = "delete"
    /\ job' = job_delete(job, deid[t][1])
    /\ call' = [op |-> "delete_job", args |-> <<deid[t][1]>>,
                ret |-> Ok(rows_affected(job, deid[t][1]))]
    /\ dpc' = [dpc EXCEPT ![t] = "idle"]
    /\ UNCHANGED <<libVars, memo, raceVars, job_exec_history, deid, runVars>>

NextJobRace ==
    \/ SaveJob
    \/ InsertExecHistory
    \/ \E t \in DeleteTasks : DelCall(t)
    \/ \E t \in DeleteTasks : DelFind(t)
    \/ \E t \in DeleteTasks : DelExec(t)

SpecJobRace == Init /\ [][NextJobRace]_vars

(***************************************************************************)
(* openapi/src/logic/job.rs: query_run_list. The statement it builds is    *)
(* kept as the tables it selects from and the column conditions it adds;   *)
(* the database evaluates it on the two tables. Times are integers.        *)
(***************************************************************************)
\* Bound on the rows of the job_running_status table.
MaxRows == 2
\* Bound on the updated_time of a row; the range bounds run from 0 to MaxTime + 1.
MaxTime == 2
\* Bound on the page number asked for.
MaxPage == 1
\* Bound on the page size asked for.
MaxPageSize == 2

NULL == <<"NULL">>

Nightly == <<"n", "i", "g", "h", "t">>

\* The columns of a job_running_status row that Init does not draw.
StatusRow(id, schedule_id, updated_time) ==
    [id |-> id,
     schedule_id |-> schedule_id,
     schedule_type |-> IF id % 2 = 1 THEN "once" ELSE "timer",
     job_type |-> IF id % 2 = 1 THEN "default" ELSE "bundle",
     updated_user |-> IF id <= 1 THEN "u1" ELSE "u2",
     bind_ip |-> IF id % 2 = 1 THEN Ip10 ELSE <<"1", "0", ".", "0", ".", "0", ".", "2">>,
     updated_time |-> updated_time]

TablesOn(ids) ==
    {{StatusRow(id, f[id][1], f[id][2]) : id \in ids} :
        f \in [ids -> (1..2) \X (1..MaxTime)]}

StatusTables == UNION {TablesOn(ids) : ids \in SUBSET (1..MaxRows)}

ScheduleTables == {{}, {[id |-> 1, schedule_id |-> 1, name |-> Nightly]}}

\* JobRunningStatus::find() left-joined with job_schedule_history on schedule_id
RunListFrom == {"job_running_status", "job_schedule_history"}

LeftJoin(status, history) ==
    UNION {IF \E h \in history : h.schedule_id = r.schedule_id
           THEN {[rs |-> r, sh_id |-> h.id, schedule_name |-> h.name] :
                    h \in {x \in history : x.schedule_id = r.schedule_id}}
           ELSE {[rs |-> r, sh_id |-> 0, schedule_name |-> NULL]} : r \in status}

Cond(table, column, op, val) == [col |-> <<table, column>>, op |-> op, val |-> val]

ApplyIf(opt, table, column, op) ==
    IF opt # None THEN <<Cond(table, column, op, opt[1])>> ELSE << >>

\* The conditions of lines 192-213, in the order they are added.
RunListConds(a) ==
    ApplyIf(a.schedule_type, "job_running_status", "schedule_type", "eq")
    \o ApplyIf(a.job_type, "job_running_status", "job_type", "eq")
    \o ApplyIf(a.created_user, "job_running_status", "updated_user", "eq")
    \o ApplyIf(a.bind_ip, "job_running_status", "bind_ip", "contains")
    \o ApplyIf(a.schedule_name, "job_schedule_history", "name", "contains")
    \o (IF a.updated_time_range # None
        THEN <<Cond("job_running_status", "updated_time", "gt", a.updated_time_range[1][1]),
               Cond("job", "updated_time", "lt", a.updated_time_range[1][2])>>
        ELSE << >>)

Contains(str, sub) ==
    \E i \in 0..(Len(str) - Len(sub)) : SubSeq(str, i + 1, i + Len(sub)) = sub

IsNull(jr, col) == col[1] = "job_schedule_history" /\ jr.sh_id = 0

ColValue(jr, col) ==
    IF col[1] = "job_running_status" THEN jr.rs[col[2]] ELSE jr.schedule_name

CondHolds(jr, c) ==
    /\ ~IsNull(jr, c.col)
    /\ CASE c.op = "eq" -> ColValue(jr, c.col) = c.val
         [] c.op = "contains" -> Contains(ColValue(jr, c.col), c.val)
         [] c.op = "gt" -> ColValue(jr, c.col) > c.val
         [] c.op = "lt" -> ColValue(jr, c.col) < c.val

Matching(status, history, conds) ==
    {jr \in LeftJoin(status, history) : \A i \in 1..Len(conds) : CondHolds(jr, conds[i])}

\* order_by_desc(job_running_status.updated_time): every order the database
\* may return rows of equal time in
SortedDesc(rows) ==
    {q \in [1..Cardinality(rows) -> rows] :
        /\ \A i, j \in 1..Cardinality(rows) : i # j => q[i] # q[j]
        /\ \A i, j \in 1..Cardinality(rows) :
              i < j => q[i].rs.updated_time >= q[j].rs.updated_time}

\* paginate(db, page_size).fetch_page(page)
FetchPage(q, page, page_size) ==
    SubSeq(q, page * page_size + 1,
           IF (page + 1) * page_size < Len(q) THEN (page + 1) * page_size ELSE Len(q))

UnknownColumn == "Unknown column in 'where clause'"

\* Every result query_run_list may return: the count and the page, or the
\* database's error for a condition on a table the statement does not select from.
query_run_list(status, history, a) ==
    LET conds == RunListConds(a)
    IN  IF \E i \in 1..Len(conds) : conds[i].col[1] \notin RunListFrom
        THEN {Err(UnknownColumn)}
        ELSE LET rows == Matching(status, history, conds)
             IN  {Ok(<<FetchPage(q, a.page, a.page_size), Cardinality(rows)>>) :
                      q \in SortedDesc(rows)}

RunListArgs ==
    [schedule_type : {None, Some("once")},
     job_type : {None, Some("default")},
     created_user : {None, Some("u1")},
     bind_ip : {None, Some(<<".", "1">>)},
     schedule_name : {None, Some(<<"i", "g">>)},
     updated_time_range : {None} \cup {Some(<<lo, hi>>) : lo, hi \in 0..(MaxTime + 1)},
     page : 0..MaxPage,
     page_size : 1..MaxPageSize]

\* The tables and the arguments of the call are drawn here.
InitRunList ==
    /\ LOCAL_IP = None
    /\ HTTP_CLIENT = None
    /\ COMET_ADDR = None
    /\ setLog = << >>
    /\ memo = NoCall
    /\ InitRace /\ InitDb
    /\ job_running_status \in StatusTables
    /\ job_schedule_history \in ScheduleTables
    /\ call \in {[op |-> "query_run_list", args |-> a, ret |-> Pending] :
                    a \in RunListArgs}

QueryRunList ==
    /\ call.op = "query_run_list"
    /\ call.ret = Pending
    /\ \E ret \in query_run_list(job_running_status, job_schedule_history, call.args) :
          call' = [call EXCEPT !.ret = ret]
    /\ UNCHANGED <<libVars, memo, raceVars, dbVars, runVars>>

SpecRunList == InitRunList /\ [][QueryRunList]_vars

(***************************************************************************)
(* Claims about automate/src/lib.rs                                        *)
(***************************************************************************)
ProductIns ==
    <<"j", "i", "a", "s", "c", "h", "e", "d", "u", "l", "e", "r", ":",
      "i", "n", "s", ":">>

\* C1: every get_endpoint(namespace, ip) returns "jiascheduler:ins:<namespace>:<ip>"
\* when namespace is not empty and "jiascheduler:ins:<ip>" when it is empty.
C1_EndpointFormat ==
    call.op = "get_endpoint" =>
        LET namespace == call.args[1]
            ip == call.args[2]
            key == call.ret[2]
        IN  /\ call.ret[1] = "ok"
            /\ SubSeq(key, 1, 17) = ProductIns
            /\ IF namespace # << >>
               THEN /\ Len(key) = 17 + Len(namespace) + 1 + Len(ip)
                    /\ SubSeq(key, 18, 17 + Len(namespace)) = namespace
                    /\ key[18 + Len(namespace)] = ":"
                    /\ SubSeq(key, 19 + Len(namespace), Len(key)) = ip
               ELSE /\ Len(key) = 17 + Len(ip)
                    /\ SubSeq(key, 18, Len(key)) = ip

\* get_endpoint("tenantA", "10.0.0.1") has returned "jiascheduler:ins:tenantA:10.0.0.1"
C1_Witness ==
    /\ call.op = "get_endpoint"
    /\ call.args = <<TenantA, Ip10>>
    /\ call.ret = Ok(<<"j", "i", "a", "s", "c", "h", "e", "d", "u", "l", "e", "r",
                       ":", "i", "n", "s", ":", "t", "e", "n", "a", "n", "t", "A",
                       ":", "1", "0", ".", "0", ".", "0", ".", "1">>)

\* C2: two get_endpoint calls on distinct (namespace, ip) pairs return
\* different routing keys.
C2_Injective ==
    (/\ memo.op = "get_endpoint"
     /\ call.op = "get_endpoint"
     /\ memo.args # call.args) => memo.ret # call.ret

\* C3: get_endpoint reports a rejection exactly when ip is empty, and returns
\* a routing key otherwise.
C3_EmptyIpRejected ==
    call.op = "get_endpoint" =>
        IF call.args[2] = << >> THEN call.ret[1] = "err" ELSE call.ret[1] = "ok"

\* C4: a get_endpoint call leaves LOCAL_IP, HTTP_CLIENT and COMET_ADDR as they
\* were, and returns what an earlier call with the same arguments returned,
\* whatever calls on the cells came between the two.
C4_Pure ==
    [][call'.op = "get_endpoint" =>
          /\ <<LOCAL_IP, HTTP_CLIENT, COMET_ADDR>>' = <<LOCAL_IP, HTTP_CLIENT, COMET_ADDR>>
          /\ (memo.op = "get_endpoint" /\ memo.args = call'.args)
                => call'.ret = memo.ret]_vars

\* Two get_endpoint calls with the same arguments, every cell initialised by
\* now and the relay address overwritten at least once.
C4_Witness ==
    /\ memo.op = "get_endpoint"
    /\ call.op = "get_endpoint"
    /\ memo.args = call.args
    /\ memo.ret = call.ret
    /\ LOCAL_IP # None
    /\ HTTP_CLIENT # None
    /\ Len(setLog) = 2

\* C5: get_nanid(prefix) returns the prefix, one "-", and a suffix of exactly
\* 10 characters of nanoid's alphabet, and nothing else.
C5_NanidShape ==
    (call.op = "get_nanid" /\ call.ret # Pending) =>
        LET prefix == call.args[1]
            id == call.ret[2]
            n == Len(prefix)
        IN  /\ call.ret[1] = "ok"
            /\ Len(id) = n + 1 + 10
            /\ SubSeq(id, 1, n) = prefix
            /\ id[n + 1] = "-"
            /\ \A i \in (n + 2)..(n + 11) : id[i] \in NanoAlphabet

\* get_nanid has returned for a prefix that holds no "-", with a generated
\* suffix that itself starts with "-".
C5_Witness ==
    /\ call.op = "get_nanid"
    /\ call.ret # Pending
    /\ call.args[1] = <<"a", "a">>
    /\ call.ret[2][4] = "-"
    /\ Len(call.ret[2]) = 13

LastSet == IF setLog = << >> THEN None ELSE Some(setLog[Len(setLog)])

\* C7: get_comet_addr returns None until set_comet_addr is called and from then
\* on Some of the address of the latest call; it never changes the cell.
C7_LastWriteWins ==
    /\ [](get_comet_addr(COMET_ADDR) = LastSet)
    /\ [][call'.op = "get_comet_addr" =>
             /\ COMET_ADDR' = COMET_ADDR
             /\ call'.ret = Ok(LastSet)]_vars

\* get_comet_addr has returned the second of two different addresses set.
C7_Witness ==
    /\ call.op = "get_comet_addr"
    /\ Len(setLog) = 2
    /\ setLog[1] # setLog[2]
    /\ call.ret = Ok(Some(setLog[2]))

\* C10: whatever the interleaving of concurrent set_comet_addr calls, no call
\* panics, and once all have returned get_comet_addr returns Some of an
\* address one of them passed.
C10_NoPanicSomePassed ==
    /\ \A t \in Threads : pc[t] # "panicked"
    /\ (/\ \A t \in Threads : pc[t] = "idle"
        /\ passed # {})
          => \E addr \in passed : get_comet_addr(COMET_ADDR) = Some(addr)

(***************************************************************************)
(* Claims about openapi/src/logic/job.rs                                   *)
(***************************************************************************)
HasHistory(eid) == \E h \in job_exec_history : h.eid = eid

C8_RangeOnRunningStatus ==
    (/\ call.op = "query_run_list"
     /\ call.ret # Pending
     /\ call.args.updated_time_range # None) =>
        LET lo == call.args.updated_time_range[1][1]
            hi == call.args.updated_time_range[1][2]
            others == RunListConds([call.args EXCEPT !.updated_time_range = None])
            want == {jr \in Matching(job_running_status, job_schedule_history, others) :
                        lo < jr.rs.updated_time /\ jr.rs.updated_time < hi}
        IN  /\ call.ret[1] = "ok"
            /\ call.ret[2][2] = Cardinality(want)
            /\ \A i \in 1..Len(call.ret[2][1]) : call.ret[2][1][i] \in want

====
